---- MODULE Spec2Model ----
(***************************************************************************)
(* A state-machine model of the pressure_above detector plugin             *)
(* (src/plugins/PressureAbove.cpp): PressureAbove::init, which reads the   *)
(* plugin's arguments into its configuration fields, and                   *)
(* PressureAbove::run, which resolves the monitored cgroups, picks the     *)
(* most pressured one by a weighted comparison and decides whether the     *)
(* 10s pressure has been above the threshold for the configured duration.  *)
(***************************************************************************)
EXTENDS Integers, Sequences, FiniteSets, TLC

\* ------------------------------------------------------------------ bounds

\* The monotonic clock runs from 0 to MaxTime ticks.
MaxTime == 4

\* Ticks of the monotonic clock per second: steady_clock is finer than the
\* seconds that duration_cast<seconds> truncates to.
TicksPerSec == 2

\* ------------------------------------------------------- program constants

\* static constexpr auto kCgroupFs = "/sys/fs/cgroup/";
kCgroupFs == "/sys/fs/cgroup/"

\* steady_clock::time_point(): the default-constructed time point, the
\* clock's epoch, which run() uses as "no threshold hit recorded".
TimePointZero == 0

\* ------------------------------------------------------------- the inputs

\* The cgroups that may exist under the cgroup filesystem root.
Groups == {"g1", "g2"}

\* A ResourcePressure value.
RP(a, b, c) == [sec_10 |-> a, sec_60 |-> b, sec_600 |-> c]

\* ResourcePressure current_pressure; (default-constructed: all zero)
ZeroPressure == RP(0, 0, 0)

\* The readings a pressure file may hold: the zero reading, two readings of
\* the same weighted score (3) with different sec_10, and one of a higher
\* score (4) with a lower sec_10 than the first.
PressureValues == {ZeroPressure, RP(1, 0, 0), RP(0, 0, 3), RP(0, 2, 0)}

\* What memory.current of each cgroup holds.
MemCurrent(name) == IF name = "g1" THEN 1 ELSE 2

\* The outcome of one read of a control file: a value, or a failure, which
\* the reader reports by throwing.
Ok(v) == [ok |-> TRUE, val |-> v]
ReadFailure(v) == [ok |-> FALSE, val |-> v]
PressureOutcomes == {Ok(v) : v \in PressureValues} \cup {ReadFailure(ZeroPressure)}

\* What the control files of one existing cgroup give in a round: what the
\* read of its pressure file gives and whether the read of its memory.current
\* fails. memory.current is read only after a reading of a positive score,
\* so its failure is told apart only then.
FileOutcomes ==
  {f \in [pressure : PressureOutcomes, usage_fails : BOOLEAN] :
     f.usage_fails => (f.pressure.ok /\ f.pressure.val # ZeroPressure)}

\* Argument strings are sequences of characters.
Digits == {"0", "1", "2", "3", "4", "5", "6", "7", "8", "9"}
DigitVal(c) ==
  CASE c = "0" -> 0 [] c = "1" -> 1 [] c = "2" -> 2 [] c = "3" -> 3
    [] c = "4" -> 4 [] c = "5" -> 5 [] c = "6" -> 6 [] c = "7" -> 7
    [] c = "8" -> 8 [] c = "9" -> 9

\* The texts given for threshold and duration: integers, an integer followed
\* by other characters, non-numeric text, a bare sign and the empty string.
NumberTexts ==
  {<<"0">>, <<"1">>, <<"-", "1">>, <<" ", "1">>, <<"1", "a">>, <<"a">>,
   <<"a", "1">>, <<"-">>, <<>>}

\* The values given for the cgroup argument: comma-separated pattern lists,
\* held as the list of their pieces.
CgroupTexts == {<<"g1">>, <<"g1", "*">>}

ResourceTexts == {"io", "memory", "cpu"}
CgroupFsTexts == {"/alt"}

\* An optional key of the argument map.
Opt(k, vals) == {<<>>} \cup {k :> v : v \in vals}

\* Every argument map handed to init().
AllArgs ==
  {a @@ b @@ c @@ d @@ e :
     a \in Opt("cgroup", CgroupTexts), b \in Opt("cgroup_fs", CgroupFsTexts),
     c \in Opt("resource", ResourceTexts), d \in Opt("threshold", NumberTexts),
     e \in Opt("duration", NumberTexts)}

\* One ruleset's arguments for the detector.
Ruleset(resource, threshold, duration) ==
  ("cgroup" :> <<"g1", "*">>) @@ ("resource" :> resource)
    @@ ("threshold" :> threshold) @@ ("duration" :> duration)

\* The argument maps of the rulesets the engine runs detectors for.
RulesetArgs ==
  {Ruleset("io", <<"0">>, <<"1">>), Ruleset("memory", <<"0">>, <<"0">>),
   Ruleset("memory", <<"-", "1">>, <<"1">>)}

\* ------------------------------------------------------------------ state

VARIABLES
  cgroups_,        \* std::unordered_set<std::string>: the configured patterns
  cgroup_fs_,      \* the cgroup filesystem root
  resource_,       \* ResourceType: "IO" or "MEMORY"
  threshold_,      \* int
  duration_,       \* int, seconds
  hit_thres_at_,   \* steady_clock::time_point, in ticks
  last_pressure_,  \* ResourcePressure
  clock,           \* steady_clock, in ticks
  init_ret,        \* how init() ended: NOT_CALLED, SUCCESS, ERROR, EXCEPTION
  init_args,       \* the argument map init() was called with
  run_ret,         \* how the last run() ended: NOT_CALLED, CONTINUE, STOP, EXCEPTION
  round,           \* what the last run() saw and computed
  breach,          \* history: the current contiguous run of samples above the threshold
  other            \* a second PressureAbove instance: its fields and how its calls ended

config == <<cgroups_, cgroup_fs_, resource_, threshold_, duration_>>
gate == <<hit_thres_at_, last_pressure_>>
vars == <<cgroups_, cgroup_fs_, resource_, threshold_, duration_, hit_thres_at_,
          last_pressure_, clock, init_ret, init_args, run_ret, round, breach, other>>

\* ------------------------------------------------------------ conversions

\* std::stoi's first step: leading whitespace is skipped.
RECURSIVE SkipSpace(_)
SkipSpace(s) ==
  IF s # <<>> /\ Head(s) = " " THEN SkipSpace(Tail(s)) ELSE s

\* The value and the length of the longest prefix of digits of s, read after
\* `acc` (the digits read so far) and `n` (how many there were).
RECURSIVE ReadDigits(_, _, _)
ReadDigits(s, acc, n) ==
  IF s # <<>> /\ Head(s) \in Digits
    THEN ReadDigits(Tail(s), acc * 10 + DigitVal(Head(s)), n + 1)
    ELSE [val |-> acc, n |-> n]

\* std::stoi(text): whitespace, an optional sign, then as many digits as
\* there are; whatever follows the digits is ignored. With no digit at all it
\* throws std::invalid_argument (ok = FALSE). The texts of this model are
\* short of int's range, so std::out_of_range does not arise.
StoI(text) ==
  LET s == SkipSpace(text)
      signed == s # <<>> /\ Head(s) \in {"-", "+"}
      body == IF signed THEN Tail(s) ELSE s
      d == ReadDigits(body, 0, 0)
  IN [ok |-> d.n > 0,
      val |-> IF signed /\ Head(s) = "-" THEN 0 - d.val ELSE d.val]

\* Fs::split(args["cgroup"], ','): the pieces of the comma-separated list.
Split(list) == {list[i] : i \in DOMAIN list}

\* args.find(k) != args.end()
Has(args, k) == k \in DOMAIN args

\* --------------------------------------------------------------- init()

\* The instance's configuration fields as one record, with how init() ended.
Self == [cgroups_ |-> cgroups_, cgroup_fs_ |-> cgroup_fs_, resource_ |-> resource_,
         threshold_ |-> threshold_, duration_ |-> duration_, ret |-> "NOT_CALLED"]

\* Lines 37-45: the cgroup list is inserted and the root set, or init() returns 1.
InitCgroup(self, args) ==
  IF Has(args, "cgroup")
    THEN [self EXCEPT !.cgroups_ = @ \cup Split(args["cgroup"]),
                      !.cgroup_fs_ = IF Has(args, "cgroup_fs")
                                       THEN args["cgroup_fs"] ELSE kCgroupFs]
    ELSE [self EXCEPT !.ret = "ERROR"]

\* Lines 47-58: the resource kind is set, or init() returns 1.
InitResource(self, args) ==
  IF Has(args, "resource") /\ (args["resource"] = "io" \/ args["resource"] = "memory")
    THEN [self EXCEPT !.resource_ = IF args["resource"] = "io" THEN "IO" ELSE "MEMORY"]
    ELSE [self EXCEPT !.ret = "ERROR"]

\* Lines 60-65: threshold_ = std::stoi(args["threshold"]), which may throw,
\* or init() returns 1.
InitThreshold(self, args) ==
  IF Has(args, "threshold")
    THEN LET t == StoI(args["threshold"])
         IN IF t.ok THEN [self EXCEPT !.threshold_ = t.val]
                    ELSE [self EXCEPT !.ret = "EXCEPTION"]
    ELSE [self EXCEPT !.ret = "ERROR"]

\* Lines 67-72: duration_ = std::stoi(args["duration"]), which may throw,
\* or init() returns 1.
InitDuration(self, args) ==
  IF Has(args, "duration")
    THEN LET d == StoI(args["duration"])
         IN IF d.ok THEN [self EXCEPT !.duration_ = d.val]
                    ELSE [self EXCEPT !.ret = "EXCEPTION"]
    ELSE [self EXCEPT !.ret = "ERROR"]

\* PressureAbove::init: the four steps in order, each one ending the call
\* when it fails; return 0 after the last.
init(self, args) ==
  LET s1 == InitCgroup(self, args)
      s2 == InitResource(s1, args)
      s3 == InitThreshold(s2, args)
      s4 == InitDuration(s3, args)
  IN IF s1.ret # "NOT_CALLED" THEN s1
     ELSE IF s2.ret # "NOT_CALLED" THEN s2
     ELSE IF s3.ret # "NOT_CALLED" THEN s3
     ELSE IF s4.ret # "NOT_CALLED" THEN s4
     ELSE [s4 EXCEPT !.ret = "SUCCESS"]

\* One call of init() on a newly created instance.
InitCall(args) ==
  /\ init_ret = "NOT_CALLED"
  /\ LET s == init(Self, args)
     IN /\ cgroups_' = s.cgroups_
        /\ cgroup_fs_' = s.cgroup_fs_
        /\ resource_' = s.resource_
        /\ threshold_' = s.threshold_
        /\ duration_' = s.duration_
        /\ init_ret' = s.ret
  /\ init_args' = args
  /\ UNCHANGED <<hit_thres_at_, last_pressure_, clock, run_ret, round, breach, other>>

\* The engine creates the detector of a ruleset and initialises it.
Construct == \E args \in RulesetArgs : InitCall(args)

\* init() called with any argument map.
Configure == \E args \in AllArgs : InitCall(args)

\* ---------------------------------------------------------------- run()

\* The absolute path of a cgroup: cgroup_fs_ + "/" + cgroup.
Path(root, name) == <<root, name>>

\* A shell-style pattern against a directory entry.
Matches(pattern, name) == pattern = "*" \/ pattern = name

\* Lines 81-85: Fs::resolveWildcardPath on every configured pattern against
\* the cgroups that exist now (`live`), collected into one set.
ResolveAll(patterns, root, live) ==
  {Path(root, g) : g \in {n \in live : \E p \in patterns : Matches(p, n)}}

\* The orders in which an unordered set may be iterated.
Orders(S) ==
  {o \in [1..Cardinality(S) -> S] : \A i, j \in 1..Cardinality(S) : o[i] = o[j] => i = j}

\* rp.sec_10 * 3 + rp.sec_60 * 2 + rp.sec_600
Score(rp) == rp.sec_10 * 3 + rp.sec_60 * 2 + rp.sec_600

\* Outweighs with the comparison made on the 10s value alone.
OutweighsBySec10(rp, current) == rp.sec_10 > current.sec_10

\* Line 102: the weighted comparison of a reading with the current one.
Outweighs(rp, current) == Score(rp) > Score(current)

\* The reader the resource kind selects (the switch of lines 91-99).
Reader(resource) == IF resource = "IO" THEN "readIopressure" ELSE "readMempressure"

\* Loop with Fs::readMemcurrent called after the comparison instead of
\* inside it: the usage is that of the cgroup iterated last.
RECURSIVE LoopUsageOfLast(_, _, _)
LoopUsageOfLast(order, files, st) ==
  IF order = <<>> THEN st
  ELSE
    LET p == Head(order)
        rp == files[p].pressure
        mc == IF files[p].usage_fails THEN ReadFailure(0) ELSE Ok(MemCurrent(p[2]))
        st1 == [st EXCEPT !.pressure_read = @ @@ (p :> rp)]
    IN IF ~rp.ok THEN [st1 EXCEPT !.exception = TRUE]
       ELSE LET st2 == [st1 EXCEPT !.current_pressure =
                                     IF Outweighs(rp.val, @) THEN rp.val ELSE @,
                                   !.usage_read = @ @@ (p :> mc)]
            IN IF ~mc.ok THEN [st2 EXCEPT !.exception = TRUE]
               ELSE LoopUsageOfLast(Tail(order), files,
                                    [st2 EXCEPT !.current_memory_usage = mc.val])

\* Lines 86-108: the loop over the resolved cgroups in iteration order
\* `order`, from the loop's state `st`. `files[p]` is what the selected
\* reader and Fs::readMemcurrent give for path p; a failed read throws out
\* of the loop (st.exception). pressure_read and usage_read keep what was
\* read of each path.
RECURSIVE Loop(_, _, _)
Loop(order, files, st) ==
  IF order = <<>> THEN st
  ELSE
    LET p == Head(order)
        rp == files[p].pressure
        mc == IF files[p].usage_fails THEN ReadFailure(0) ELSE Ok(MemCurrent(p[2]))
        st1 == [st EXCEPT !.pressure_read = @ @@ (p :> rp)]
    IN IF ~rp.ok THEN [st1 EXCEPT !.exception = TRUE]
       ELSE IF Outweighs(rp.val, st.current_pressure)
         THEN LET st2 == [st1 EXCEPT !.current_pressure = rp.val,
                                     !.usage_read = @ @@ (p :> mc)]
              IN IF ~mc.ok THEN [st2 EXCEPT !.exception = TRUE]
                 ELSE Loop(Tail(order), files,
                           [st2 EXCEPT !.current_memory_usage = mc.val])
         ELSE Loop(Tail(order), files, st1)

\* LoopStart with the representative reading kept from the round before
\* (a member in place of the local of line 86).
LoopStartFromLast ==
  [current_pressure |-> last_pressure_, current_memory_usage |-> 0,
   exception |-> FALSE, pressure_read |-> <<>>, usage_read |-> <<>>]

\* Lines 86-87: the loop's state before the first cgroup.
LoopStart ==
  [current_pressure |-> ZeroPressure, current_memory_usage |-> 0,
   exception |-> FALSE, pressure_read |-> <<>>, usage_read |-> <<>>]

\* Lines 122-124: duration_cast<seconds>(now - hit_thres_at_).count()
Diff(now, hit) == (now - hit) \div TicksPerSec

\* Check with the log line written before the test of line 126: in every
\* round above the threshold.
CheckLogsWhenAbove(hit, current, now, threshold, duration) ==
  IF current.sec_10 > threshold
    THEN LET armed == IF hit = TimePointZero THEN now ELSE hit
         IN IF Diff(now, armed) >= duration
              THEN [hit_thres_at_ |-> armed, ret |-> "CONTINUE", logged |-> TRUE]
              ELSE [hit_thres_at_ |-> armed, ret |-> "STOP", logged |-> TRUE]
    ELSE [hit_thres_at_ |-> TimePointZero, ret |-> "STOP", logged |-> FALSE]

\* Check without the test of line 118: the arm timestamp is set to now in
\* every round above the threshold.
CheckRearms(hit, current, now, threshold, duration) ==
  IF current.sec_10 > threshold
    THEN IF Diff(now, now) >= duration
           THEN [hit_thres_at_ |-> now, ret |-> "CONTINUE", logged |-> TRUE]
           ELSE [hit_thres_at_ |-> now, ret |-> "STOP", logged |-> FALSE]
    ELSE [hit_thres_at_ |-> TimePointZero, ret |-> "STOP", logged |-> FALSE]

\* Check without the else branch of lines 137-139: a sample at or below the
\* threshold leaves the arm timestamp as it was.
CheckNoReset(hit, current, now, threshold, duration) ==
  IF current.sec_10 > threshold
    THEN LET armed == IF hit = TimePointZero THEN now ELSE hit
         IN IF Diff(now, armed) >= duration
              THEN [hit_thres_at_ |-> armed, ret |-> "CONTINUE", logged |-> TRUE]
              ELSE [hit_thres_at_ |-> armed, ret |-> "STOP", logged |-> FALSE]
    ELSE [hit_thres_at_ |-> hit, ret |-> "STOP", logged |-> FALSE]

\* Lines 117-141: the threshold check, from the arm timestamp `hit`, the
\* representative reading, the time and the configuration: the new arm
\* timestamp, what run() returns, and whether the log line was written.
Check(hit, current, now, threshold, duration) ==
  IF current.sec_10 > threshold
    THEN LET armed == IF hit = TimePointZero THEN now ELSE hit
         IN IF Diff(now, armed) >= duration
              THEN [hit_thres_at_ |-> armed, ret |-> "CONTINUE", logged |-> TRUE]
              ELSE [hit_thres_at_ |-> armed, ret |-> "STOP", logged |-> FALSE]
    ELSE [hit_thres_at_ |-> TimePointZero, ret |-> "STOP", logged |-> FALSE]

\* OOMD_SCOPE_EXIT { last_pressure_ = current_pressure; }: the guard is
\* created at line 110, after the loop, so it runs on the exits after it and
\* not when a read throws inside the loop.
ScopeExit(last, st) == IF st.exception THEN last ELSE st.current_pressure

\* History: the contiguous run of samples above the threshold that ends at
\* this round: whether there is one, when its first round was, and whether
\* an earlier run was cut off by a sample at or below the threshold.
\* `refired` (set by RunFrom) tells that this round and the round before it
\* both returned CONTINUE.
BreachAfter(b, sample, now, threshold) ==
  IF sample > threshold
    THEN [active |-> TRUE, since |-> IF b.active THEN b.since ELSE now,
          dipped |-> b.dipped, refired |-> FALSE]
    ELSE [active |-> FALSE, since |-> 0, dipped |-> b.dipped \/ b.active,
          refired |-> FALSE]

\* What a round leaves behind, from the loop's final state `st` under
\* iteration order `order` at time `now`.
RunFrom(order, st, now) ==
  LET chk == Check(hit_thres_at_, st.current_pressure, now, threshold_, duration_)
  IN /\ last_pressure_' = ScopeExit(last_pressure_, st)
     /\ hit_thres_at_' = IF st.exception THEN hit_thres_at_ ELSE chk.hit_thres_at_
     /\ run_ret' = IF st.exception THEN "EXCEPTION" ELSE chk.ret
     /\ round' = [resolved |-> order, reader |-> Reader(resource_),
                  pressure_read |-> st.pressure_read,
                  usage_read |-> st.usage_read,
                  current_pressure |-> st.current_pressure,
                  current_memory_usage |-> st.current_memory_usage,
                  logged |-> ~st.exception /\ chk.logged]
     /\ breach' = IF st.exception THEN [breach EXCEPT !.refired = FALSE]
                  ELSE [BreachAfter(breach, st.current_pressure.sec_10, now, threshold_)
                          EXCEPT !.refired = (run_ret = "CONTINUE" /\ chk.ret = "CONTINUE")]

\* PressureAbove::run, one polling round: the cgroups that exist, the order
\* the resolved set is iterated in and what the control files give are the
\* environment's.
Run ==
  /\ init_ret = "SUCCESS"
  /\ \E live \in SUBSET Groups :
       LET resolved == ResolveAll(cgroups_, cgroup_fs_, live)
       IN \E order \in Orders(resolved) :
            \E files \in [resolved -> FileOutcomes] :
              RunFrom(order, Loop(order, files, LoopStart), clock)
  /\ UNCHANGED <<cgroups_, cgroup_fs_, resource_, threshold_, duration_, clock,
                 init_ret, init_args, other>>

\* The monotonic clock advances.
Tick ==
  /\ clock < MaxTime
  /\ clock' = clock + 1
  /\ UNCHANGED <<cgroups_, cgroup_fs_, resource_, threshold_, duration_,
                 hit_thres_at_, last_pressure_, init_ret, init_args, run_ret,
                 round, breach, other>>

\* ------------------------------------------------- a second instance

\* The values a field that the constructor leaves unset may hold.
Indeterminate == {0, 1}

\* The second instance before the engine creates it.
NotCreated ==
  [cgroups_ |-> {}, cgroup_fs_ |-> "", resource_ |-> "IO", threshold_ |-> 0,
   duration_ |-> 0, hit_thres_at_ |-> TimePointZero, last_pressure_ |-> ZeroPressure,
   init_ret |-> "NOT_CALLED", run_ret |-> "NOT_CALLED"]

\* The rulesets of the two detectors that run side by side: different
\* cgroups, resources and durations.
FirstArgs ==
  ("cgroup" :> <<"g1">>) @@ ("resource" :> "io")
    @@ ("threshold" :> <<"0">>) @@ ("duration" :> <<"1">>)
SecondArgs ==
  ("cgroup" :> <<"g2">>) @@ ("cgroup_fs" :> "/alt") @@ ("resource" :> "memory")
    @@ ("threshold" :> <<"0">>) @@ ("duration" :> <<"0">>)

\* The engine creates the first detector and initialises it.
ConstructFirst == InitCall(FirstArgs)

\* The engine creates the second detector and initialises it: init() on
\* the second instance's own fields, whatever the members that have no
\* initialiser held.
ConstructSecond ==
  /\ other.init_ret = "NOT_CALLED"
  /\ \E r \in {"IO", "MEMORY"}, t \in Indeterminate, d \in Indeterminate :
       LET fresh == [cgroups_ |-> {}, cgroup_fs_ |-> "", resource_ |-> r,
                     threshold_ |-> t, duration_ |-> d, ret |-> "NOT_CALLED"]
           s == init(fresh, SecondArgs)
       IN other' = [other EXCEPT !.cgroups_ = s.cgroups_, !.cgroup_fs_ = s.cgroup_fs_,
                                 !.resource_ = s.resource_, !.threshold_ = s.threshold_,
                                 !.duration_ = s.duration_, !.init_ret = s.ret]
  /\ UNCHANGED <<cgroups_, cgroup_fs_, resource_, threshold_, duration_,
                 hit_thres_at_, last_pressure_, clock, init_ret, init_args,
                 run_ret, round, breach>>

\* RunSecond with hit_thres_at_ a static of the class instead of a member:
\* the second instance reads and writes the timestamp the first one uses.
RunSecondStaticTimestamp ==
  /\ other.init_ret = "SUCCESS"
  /\ \E live \in SUBSET Groups :
       LET resolved == ResolveAll(other.cgroups_, other.cgroup_fs_, live)
       IN \E order \in Orders(resolved) :
            \E files \in [resolved -> FileOutcomes] :
              LET st == Loop(order, files, LoopStart)
                  chk == Check(hit_thres_at_, st.current_pressure, clock,
                               other.threshold_, other.duration_)
              IN /\ other' =
                      [other EXCEPT
                         !.last_pressure_ = ScopeExit(@, st),
                         !.run_ret = IF st.exception THEN "EXCEPTION" ELSE chk.ret]
                 /\ hit_thres_at_' = IF st.exception THEN hit_thres_at_
                                     ELSE chk.hit_thres_at_
  /\ UNCHANGED <<cgroups_, cgroup_fs_, resource_, threshold_, duration_,
                 last_pressure_, clock, init_ret, init_args,
                 run_ret, round, breach>>

\* PressureAbove::run on the second instance: the same round, on that
\* instance's members.
RunSecond ==
  /\ other.init_ret = "SUCCESS"
  /\ \E live \in SUBSET Groups :
       LET resolved == ResolveAll(other.cgroups_, other.cgroup_fs_, live)
       IN \E order \in Orders(resolved) :
            \E files \in [resolved -> FileOutcomes] :
              LET st == Loop(order, files, LoopStart)
                  chk == Check(other.hit_thres_at_, st.current_pressure, clock,
                               other.threshold_, other.duration_)
              IN other' =
                   [other EXCEPT
                      !.last_pressure_ = ScopeExit(@, st),
                      !.hit_thres_at_ = IF st.exception THEN @ ELSE chk.hit_thres_at_,
                      !.run_ret = IF st.exception THEN "EXCEPTION" ELSE chk.ret]
  /\ UNCHANGED <<cgroups_, cgroup_fs_, resource_, threshold_, duration_,
                 hit_thres_at_, last_pressure_, clock, init_ret, init_args,
                 run_ret, round, breach>>

\* ------------------------------------------------------- specifications

\* A newly created instance: no pattern, an empty root, the arm timestamp and
\* the last reading default-constructed; the resource kind, the threshold and
\* the duration are set by init() only.
Init ==
  /\ cgroups_ = {}
  /\ cgroup_fs_ = ""
  /\ resource_ \in {"IO", "MEMORY"}
  /\ threshold_ \in Indeterminate
  /\ duration_ \in Indeterminate
  /\ hit_thres_at_ = TimePointZero
  /\ last_pressure_ = ZeroPressure
  /\ clock = 0
  /\ init_ret = "NOT_CALLED"
  /\ init_args = <<>>
  /\ run_ret = "NOT_CALLED"
  /\ round = [resolved |-> <<>>, reader |-> "none", pressure_read |-> <<>>,
              usage_read |-> <<>>, current_pressure |-> ZeroPressure,
              current_memory_usage |-> 0, logged |-> FALSE]
  /\ breach = [active |-> FALSE, since |-> 0, dipped |-> FALSE, refired |-> FALSE]
  /\ other = NotCreated

\* The detector of a ruleset: created, initialised, then run once per
\* polling round while the clock advances.
Next == Construct \/ Run \/ Tick
Spec == Init /\ [][Next]_vars

\* init() alone, on every argument map.
NextConfig == Configure
SpecConfig == Init /\ [][NextConfig]_vars

\* Two detectors side by side: each is created and initialised, and their
\* rounds interleave in any order while the clock advances.
NextTwo == ConstructFirst \/ ConstructSecond \/ Run \/ RunSecond \/ Tick
SpecTwo == Init /\ [][NextTwo]_vars

\* ------------------------------------------------------------ the claims

\* A step of run(): the instance is initialised and the clock stands still
\* (Tick moves the clock, init() runs once, before).
RunStep == init_ret = "SUCCESS" /\ clock' = clock

\* run() returned (it did not end by an exception).
Returned == run_ret \in {"CONTINUE", "STOP"}

\* The representative 10s sample of the last round.
Sample == round.current_pressure.sec_10

\* The largest element of a non-empty set of numbers.
Max(S) == CHOOSE x \in S : \A y \in S : y <= x

\* The composite score 3*sec_10 + 2*sec_60 + sec_600 of a reading.
Composite(rp) == 3 * rp.sec_10 + 2 * rp.sec_60 + rp.sec_600

\* The paths whose pressure was read in the last round.
PathsRead == DOMAIN round.pressure_read

\* C1: a round returns CONTINUE if and only if the maximal contiguous run of
\* rounds with sample > threshold that ends at it spans at least `duration`
\* seconds from its first round, at every timestamp, the clock's zero
\* included; every other round returns STOP.
C1_SustainedIffRunSpansDuration ==
  [][(RunStep /\ Returned')
       => (run_ret' = "CONTINUE"
             <=> (breach'.active /\ clock - breach'.since >= duration_ * TicksPerSec))]_vars

\* C2: a round whose sample is at or below the threshold returns STOP and
\* leaves the arm timestamp unset, and a round returns CONTINUE only at least
\* `duration` seconds after the first round above the threshold that follows
\* the last such dip.
C2_DipResetsAndNoCarryOver ==
  [][RunStep
       => /\ (Returned' /\ Sample' <= threshold_)
                => (run_ret' = "STOP" /\ hit_thres_at_' = TimePointZero)
          /\ run_ret' = "CONTINUE"
                => (breach'.active /\ clock - breach'.since >= duration_ * TicksPerSec)]_vars

\* C2's case: CONTINUE is returned for a breach that began after an earlier
\* one was cut off by a dip, under a positive duration.
C2_Witness ==
  /\ run_ret = "CONTINUE"
  /\ breach.dipped
  /\ duration_ > 0
  /\ breach.since > 0

\* C3: after a round that returned CONTINUE, a round whose sample is still
\* above the threshold returns CONTINUE again and leaves the arm timestamp as
\* it was.
C3_LevelTriggeredKeepsTimestamp ==
  [][(RunStep /\ run_ret = "CONTINUE" /\ Returned' /\ Sample' > threshold_)
       => (run_ret' = "CONTINUE" /\ hit_thres_at_' = hit_thres_at_)]_vars

\* C4: a round in which no cgroup resolves, or no cgroup gives a non-zero
\* reading, has the zero reading as representative and does not return
\* CONTINUE, under every configuration init() accepts.
C4_NoReadingNeverContinues ==
  (Returned /\ \A p \in PathsRead : round.pressure_read[p].val = ZeroPressure)
    => (round.current_pressure = ZeroPressure /\ run_ret # "CONTINUE")

\* C5: the representative reading of a round has the largest composite score
\* among the readings of the resolved cgroups, and is the zero reading when
\* none is positive; when the scores are pairwise distinct it is the reading
\* of the largest score, whatever the iteration order and the 10s values.
C5_RepresentativeHasLargestScore ==
  Returned =>
    LET reads == round.pressure_read
        best == Max({Composite(reads[p].val) : p \in PathsRead} \cup {0})
    IN /\ Composite(round.current_pressure) = best
       /\ best = 0 => round.current_pressure = ZeroPressure
       /\ best > 0 => \E p \in PathsRead : reads[p].val = round.current_pressure
       /\ \A p \in PathsRead :
            (/\ Composite(reads[p].val) > 0
             /\ \A q \in PathsRead \ {p} :
                  Composite(reads[q].val) < Composite(reads[p].val))
              => round.current_pressure = reads[p].val

\* C5's case: two cgroups of different scores, and the representative has a
\* lower 10s value than the other.
C5_Witness ==
  /\ Returned
  /\ \E p, q \in PathsRead :
       /\ Composite(round.pressure_read[p].val) > Composite(round.pressure_read[q].val)
       /\ round.pressure_read[p].val.sec_10 < round.pressure_read[q].val.sec_10
       /\ round.current_pressure = round.pressure_read[p].val

\* C6: when run() has ended, by a return or by an exception of a failing
\* read, last_pressure_ is the representative reading computed in that round.
C6_LastPressureRecordedOnEveryExit ==
  run_ret # "NOT_CALLED" => last_pressure_ = round.current_pressure

\* C7: when init() reports an error, no configuration field has changed.
C7_InitFailsAtomically ==
  [][init_ret' = "ERROR" => config' = config]_vars

\* All the required keys are given and resource is "io" or "memory".
RequiredKeysGiven ==
  /\ {"cgroup", "resource", "threshold", "duration"} \subseteq DOMAIN init_args
  /\ init_args["resource"] \in {"io", "memory"}

\* C8: init() returns success exactly when every required key is present and
\* resource is "io" or "memory", and a non-zero error otherwise; cgroup_fs
\* plays no part.
C8_InitSucceedsIffRequiredKeys ==
  init_ret # "NOT_CALLED"
    => /\ init_ret = "SUCCESS" <=> RequiredKeysGiven
       /\ ~RequiredKeysGiven => init_ret = "ERROR"

\* C9: a round in which the read of a cgroup's pressure or usage failed
\* still completes: run() returns CONTINUE or STOP.
C9_FailedReadIsExcluded ==
  (\/ \E p \in PathsRead : ~round.pressure_read[p].ok
   \/ \E p \in DOMAIN round.usage_read : ~round.usage_read[p].ok)
    => Returned

\* A text that is an integer: blanks, an optional sign, digits and no more.
RECURSIVE AllDigits(_)
AllDigits(s) == s = <<>> \/ (Head(s) \in Digits /\ AllDigits(Tail(s)))
IsIntegerText(text) ==
  LET s == SkipSpace(text)
      body == IF s # <<>> /\ Head(s) \in {"-", "+"} THEN Tail(s) ELSE s
  IN body # <<>> /\ AllDigits(body)

\* C10: a threshold or duration that is not an integer makes init() return
\* the non-zero error of a missing key.
C10_NonIntegerIsConfigError ==
  (/\ init_ret # "NOT_CALLED"
   /\ \E k \in {"threshold", "duration"} :
        k \in DOMAIN init_args /\ ~IsIntegerText(init_args[k]))
    => init_ret = "ERROR"

\* C11: after a round whose sample exceeds the threshold the arm timestamp is
\* set, apart from "unset", to the time of the first round of the current
\* contiguous run above the threshold, at every value of the clock; it is
\* unset exactly when the last sample was at or below the threshold or no
\* round has run.
C11_ArmedSinceFirstRoundOfBreach ==
  /\ breach.active => (hit_thres_at_ # TimePointZero /\ hit_thres_at_ = breach.since)
  /\ ~breach.active => hit_thres_at_ = TimePointZero

\* C12: a round that starts armed (the arm timestamp is set) and whose sample
\* is still above the threshold leaves the arm timestamp as it was, whatever
\* it returns; in such a round only a sample at or below the threshold
\* changes it.
C12_ArmedRoundKeepsTimestamp ==
  [][(RunStep /\ hit_thres_at_ # TimePointZero)
       => /\ (Returned' /\ Sample' > threshold_) => hit_thres_at_' = hit_thres_at_
          /\ hit_thres_at_' # hit_thres_at_ => (Returned' /\ Sample' <= threshold_)]_vars

\* C12's case: under a positive duration a round returned CONTINUE, so it
\* started armed by an earlier round and kept that round's timestamp.
C12_Witness ==
  /\ run_ret = "CONTINUE"
  /\ duration_ > 0
  /\ hit_thres_at_ # TimePointZero
  /\ hit_thres_at_ < clock

\* C13: the log line is written only in a round that turns to "sustained": a
\* round that returns CONTINUE writes it only if the round before it did not
\* return CONTINUE, and a round that returns STOP never writes it.
C13_LogOnlyOnTransition ==
  [][RunStep
       => /\ (run_ret' = "CONTINUE" /\ round'.logged) => run_ret # "CONTINUE"
          /\ run_ret' = "STOP" => ~round'.logged]_vars

\* C13 as amended: the log line is written in exactly the rounds that return
\* CONTINUE, also when the round before returned CONTINUE; a round that
\* returns STOP, or ends by an exception, does not write it.
C13_LogExactlyWhenContinue ==
  run_ret # "NOT_CALLED" => (round.logged <=> run_ret = "CONTINUE")

\* C13's case: a round returned CONTINUE right after a round that returned
\* CONTINUE, and wrote the log line.
C13_Witness ==
  /\ run_ret = "CONTINUE"
  /\ breach.refired
  /\ round.logged

\* What the control files gave in a round that returned, as the loop reads
\* them: the readings of the round, every memory.current readable.
FilesOf(r) ==
  [p \in DOMAIN r.pressure_read |-> [pressure |-> r.pressure_read[p], usage_fails |-> FALSE]]

\* C14: for the same readings, gate state and time, what run() returns and
\* the arm timestamp it leaves are the same for every order in which the
\* resolved set is iterated, two cgroups of the same composite score and
\* different 10s values included.
C14_OrderIndependent ==
  [][(RunStep /\ Returned')
       => \A o \in Orders(DOMAIN round'.pressure_read) :
            LET st == Loop(o, FilesOf(round'), LoopStart)
                chk == Check(hit_thres_at_, st.current_pressure, clock,
                             threshold_, duration_)
            IN chk.ret = run_ret' /\ chk.hit_thres_at_ = hit_thres_at_']_vars

\* The elements of a sequence.
Range(seq) == {seq[i] : i \in DOMAIN seq}

\* C15: the cgroups are resolved anew in every round: the representative
\* reading of a round that returns is the zero reading or a reading of a
\* cgroup that resolved in this round, every cgroup that resolved in this
\* round was read and compared, and a cgroup read in the round before that
\* no longer resolves gives nothing to it.
C15_OnlyThisRoundsGroups ==
  [][(RunStep /\ Returned')
       => LET paths == Range(round'.resolved)
              reads == round'.pressure_read
              gone == (DOMAIN round.pressure_read) \ paths
          IN /\ DOMAIN reads = paths
             /\ gone \cap DOMAIN reads = {}
             /\ round'.current_pressure
                  \in {ZeroPressure} \cup {reads[p].val : p \in paths}
             /\ \A p \in paths :
                  Composite(reads[p].val) <= Composite(round'.current_pressure)]_vars

\* C15's case: a cgroup whose sample was above the threshold in an earlier
\* round has gone, no cgroup resolves in the last round, and its
\* representative is the zero reading.
C15_Witness ==
  /\ Returned
  /\ threshold_ >= 0
  /\ breach.dipped
  /\ round.resolved = <<>>
  /\ round.current_pressure = ZeroPressure

\* C16: when a round returns, the usage counter is the memory.current of a
\* cgroup whose reading is the representative, never that of a cgroup whose
\* reading lost the comparison, and it is 0 when the representative is the
\* default zero reading.
C16_UsageOfRepresentative ==
  Returned =>
    LET reads == round.pressure_read
        usage == round.current_memory_usage
    IN IF round.current_pressure = ZeroPressure
         THEN usage = 0
         ELSE /\ \E p \in PathsRead :
                   reads[p].val = round.current_pressure /\ usage = MemCurrent(p[2])
              /\ \A q \in PathsRead :
                   reads[q].val # round.current_pressure => usage # MemCurrent(q[2])

\* C16's case: two cgroups were read, the first one iterated was selected
\* and its usage read, then the second outweighed it: the usage is the
\* second's.
C16_Witness ==
  /\ Returned
  /\ Len(round.resolved) = 2
  /\ DOMAIN round.usage_read = Range(round.resolved)
  /\ round.current_pressure = round.pressure_read[round.resolved[2]].val
  /\ round.current_memory_usage = MemCurrent(round.resolved[2][2])

\* The fields of the first instance, and those of the second.
FirstFields == <<cgroups_, cgroup_fs_, resource_, threshold_, duration_,
                 hit_thres_at_, last_pressure_>>
SecondConfig == <<other.cgroups_, other.cgroup_fs_, other.resource_,
                  other.threshold_, other.duration_>>

\* A call on the first instance, and a call on the second.
FirstActs == <<FirstFields, init_ret, run_ret, round>>' # <<FirstFields, init_ret, run_ret, round>>
SecondActs == other' # other

\* C17: a call of init() or run() on one instance leaves the other's arm
\* timestamp, last reading and configuration as they were, what run()
\* returns is decided by its own instance's fields and its own round's
\* reading alone, and run() leaves its own instance's configuration as it
\* was.
C17_InstancesDoNotInterfere ==
  [][/\ SecondActs => FirstFields' = FirstFields
     /\ FirstActs => other' = other
     /\ (RunStep /\ FirstActs /\ Returned')
          => run_ret' = Check(hit_thres_at_, round'.current_pressure, clock,
                              threshold_, duration_).ret
     /\ (RunStep /\ FirstActs) => config' = config
     /\ (other.init_ret = "SUCCESS" /\ SecondActs) => SecondConfig' = SecondConfig]_vars

\* C17's case: both instances are armed, at different times, after rounds of
\* both, and their last rounds ended differently.
C17_Witness ==
  /\ run_ret = "STOP"
  /\ other.run_ret = "CONTINUE"
  /\ hit_thres_at_ # TimePointZero
  /\ other.hit_thres_at_ # TimePointZero
  /\ other.hit_thres_at_ > hit_thres_at_
  /\ other.duration_ # duration_

====
